---- MODULE Spec2Model ----
(***************************************************************************)
(* Model of the authentication handlers of Recipes-API                     *)
(* (handlers.AuthHandler: SignIn, SignUp, Refresh, AuthMiddleware,         *)
(* GetUser) and of the router wiring of main().                            *)
(*                                                                         *)
(* Time is counted in ticks, TicksPerSec ticks to the second, so that the  *)
(* truncation done by time.Time.Unix() is visible.  Byte strings are       *)
(* sequences; a JWT is a record holding its payload and the payload/key    *)
(* its signature was computed over (a symbolic HMAC).                      *)
(***************************************************************************)
EXTENDS Integers, Sequences, FiniteSets, TLC

\* ---------------------------------------------------------------- bounds
TicksPerSec == 2
Epoch == 1000
MaxJitter == 2
MaxUsers == 2
MaxRecipes == 2

\* ------------------------------------------------------ program constants
SignInTTLMinutes == 10
RefreshTTLMinutes == 5
RefreshWindowSeconds == 30
\* gin's abortIndex, where Abort moves Context.index (math.MaxInt8 / 2)
AbortIndex == 63

Second == TicksPerSec
Minute == 60 * Second

Usernames == {"alice", "bob"}
Passwords == {<<"pw1">>, <<"pw2">>}
\* the requests that can be in flight together
Clients == {"c1", "c2"}

\* ------------------------------------------------------------------ time
\* time.Time.Unix(): whole seconds, the fraction is dropped
Unix(t) == t \div TicksPerSec
\* time.Unix(sec, 0)
TimeUnix(sec) == sec * TicksPerSec

\* the clock readings at which requests are observed: MaxJitter ticks from
\* start-up on, which crosses sub-second readings and a second boundary.
\* Tokens of every age are presented (Headers below), so longer waits add
\* no case.
Instants == { Epoch * Second + j : j \in 0..MaxJitter }

\* ------------------------------------------------------- password digest
\* sha256 as an injective symbolic function of the bytes written to the hash
SHA256(written) == [sha256 |-> written]
\* hash.Hash.Sum(b) on a fresh sha256.New(): appends the digest of what was
\* written so far (nothing) to b
SumOnFreshHash(b) == b \o <<SHA256(<<>>)>>

\* ------------------------------------------------------------ user store
\* collection.FindOne(filter), given the positions of the documents that
\* match the filter: the first of them in insertion order, ErrNoDocuments
\* when there is none; storeUp = FALSE models a driver/store I/O error
MinOf(S) == CHOOSE i \in S : \A j \in S : i <= j
NoUser == [username |-> "", password |-> <<>>]
FindOne(coll, matching, storeUp) ==
  IF ~storeUp THEN [err |-> "io", doc |-> NoUser]
  ELSE IF matching = {} THEN [err |-> "ErrNoDocuments", doc |-> NoUser]
  ELSE [err |-> "nil", doc |-> coll[MinOf(matching)]]

\* ----------------------------------------------------------------- tokens
\* os.Getenv("JWT_SECRET") / another party's key
JWT_SECRET == "JWT_SECRET"
OtherKey == "other"
BytesKey(k) == [type |-> "bytes", val |-> k]
StringKey(k) == [type |-> "string", val |-> k]

NoSig == [key |-> "", username |-> "", exp |-> 0]
NoToken == [kind |-> "none", username |-> "", exp |-> 0, sig |-> NoSig]
EmptyHeader == [kind |-> "empty", username |-> "", exp |-> 0, sig |-> NoSig]
Garbage == [kind |-> "garbage", username |-> "", exp |-> 0, sig |-> NoSig]

\* Claims{Username, StandardClaims{ExpiresAt}}
MkClaims(u, e) == [username |-> u, exp |-> e]

\* jwt.NewWithClaims(HS256, claims).SignedString(key): the HMAC methods take
\* a []byte key only, any other key type is ErrInvalidKeyType
SignedString(claims, key) ==
  IF key.type = "bytes"
  THEN [err |-> "nil",
        token |-> [kind |-> "jwt", username |-> claims.username, exp |-> claims.exp,
                   sig |-> [key |-> key.val, username |-> claims.username,
                            exp |-> claims.exp]]]
  ELSE [err |-> "key is of invalid type", token |-> NoToken]

\* HMAC verification of the token's signature over its payload with key
VerifyMutant(tok, key) == tok.sig.key = key.val
Verify(tok, key) ==
  /\ key.type = "bytes"
  /\ tok.sig = [key |-> key.val, username |-> tok.username, exp |-> tok.exp]

\* StandardClaims.Valid() at clock reading t: exp is checked when set
\* (exp = 0 is "no exp claim"), to the second
ClaimsValidMutant(claims, t) == TRUE
ClaimsValidLaxMutant(claims, t) == claims.exp = 0 \/ Unix(t) <= claims.exp + 1
ClaimsValid(claims, t) == claims.exp = 0 \/ Unix(t) <= claims.exp

\* jwt.ParseWithClaims(tokenValue, claims, keyFunc) at clock reading t.
\* tkn = "nil" when the string has no three segments; otherwise the token is
\* returned with Valid set iff claims validation and signature both pass.
ParseWithClaims(tokenValue, key, t) ==
  IF tokenValue.kind # "jwt"
  THEN [tkn |-> "nil", valid |-> FALSE, err |-> "malformed", claims |-> MkClaims("", 0)]
  ELSE LET claims == MkClaims(tokenValue.username, tokenValue.exp)
           sigOk == Verify(tokenValue, key)
           clOk == ClaimsValid(claims, t)
       IN [tkn |-> "token", valid |-> sigOk /\ clOk,
           err |-> IF ~sigOk THEN "signature is invalid"
                   ELSE IF ~clOk THEN "token is expired"
                   ELSE "nil",
           claims |-> claims]

\* ------------------------------------------------------------- the router
\* main(): gin.Default() installs Logger and Recovery, the authorized group
\* adds AuthMiddleware in front of each of its handlers
ProtectedRoutes ==
  {"POST /recipes", "GET /recipes/search", "GET /recipes/:id",
   "PUT /recipes/:id", "DELETE /recipes/:id", "GET /user/:username"}
Chain(route) == <<"Logger", "Recovery", "AuthMiddleware", route>>
\* gin's Context.index of the k-th handler of a chain (0-based)
IndexOf(k) == k - 1

\* c.AbortWithStatus(code): writes the status and moves Context.index to
\* abortIndex, whatever it was
AbortWithStatusMutant(c, code) == [c EXCEPT !.status = code]
AbortWithStatus(c, code) == [c EXCEPT !.status = code, !.index = AbortIndex]

\* c.Next() called from the handler at c.index: the positions (1-based) of
\* the handlers it runs: index++, then every handler while index < len
NextRuns(c, chain) == { k \in 1..Len(chain) : IndexOf(k) >= c.index + 1 }

\* --------------------------------------------------------- the responses
\* what a request and its answer look like to the client; "ran" tells
\* whether the handler behind the gate was executed
NoResp ==
  [op |-> "none", username |-> "", password |-> <<>>, io |-> "n/a",
   header |-> NoToken, route |-> "", status |-> 0, error |-> "",
   token |-> NoToken, expires |-> 0, user |-> NoUser, ran |-> FALSE]
Answer(req, status, error) == [req EXCEPT !.status = status, !.error = error]
IoOf(storeUp) == IF storeUp THEN "up" ELSE "down"

\* request bodies: a JSON object that binds to models.User, or one that
\* does not (ShouldBindJSON fails)
Bodies ==
  [ok : {TRUE}, username : Usernames, password : Passwords]
    \cup {[ok |-> FALSE, username |-> "", password |-> <<>>]}

\* --------------------------------------------------------------- SignIn
\* the filter of SignInHandler's FindOne: username and hashed password
SignInFilterRawMutant(user, doc) ==
  doc.username = user.username /\ doc.password = user.password
SignInFilterNameMutant(user, doc) == doc.username = user.username
SignInFilter(user, doc) ==
  doc.username = user.username /\ doc.password = SumOnFreshHash(user.password)

\* expirationTime := time.Now().Add(10 * time.Minute)
SignInExpirationMutant(t) == t + RefreshTTLMinutes * Minute
SignInExpiration(t) == t + SignInTTLMinutes * Minute

SignInHandler(body, coll, storeUp, t) ==
  LET req == [NoResp EXCEPT !.op = "SignIn", !.username = body.username,
                            !.password = body.password]
  IN IF ~body.ok THEN Answer(req, 400, "bind")
     ELSE
       LET rq == [req EXCEPT !.io = IoOf(storeUp)]
           cur == FindOne(coll, { i \in 1..Len(coll) : SignInFilter(body, coll[i]) }, storeUp)
           expirationTime == SignInExpiration(t)
           claims == MkClaims(body.username, Unix(expirationTime))
           signed == SignedString(claims, BytesKey(JWT_SECRET))
       IN IF cur.err # "nil"
          THEN Answer(rq, 401, "Invalid username or password")
          ELSE IF signed.err # "nil"
          THEN Answer(rq, 500, signed.err)
          ELSE [rq EXCEPT !.status = 200, !.token = signed.token,
                          !.expires = expirationTime]

\* -------------------------------------------------------------- Refresh
\* time.Unix(claims.ExpiresAt, 0).Sub(time.Now()) > 30*time.Second
TooEarlyMutant(claims, t) == TimeUnix(claims.exp) - t > 2 * RefreshWindowSeconds * Second
TooEarly(claims, t) == TimeUnix(claims.exp) - t > RefreshWindowSeconds * Second

RefreshHandler(header, t) ==
  LET req == [NoResp EXCEPT !.op = "Refresh", !.header = header]
      p == ParseWithClaims(header, BytesKey(JWT_SECRET), t)
      expirationTime == t + RefreshTTLMinutes * Minute
      claims == [p.claims EXCEPT !.exp = Unix(expirationTime)]
      signed == SignedString(claims, StringKey(JWT_SECRET))
  IN IF p.err # "nil" THEN Answer(req, 401, p.err)
     ELSE IF p.tkn = "nil" \/ ~p.valid THEN Answer(req, 401, "Invalid token")
     ELSE IF TooEarly(p.claims, t) THEN Answer(req, 400, "Token is not expired yet")
     ELSE IF signed.err # "nil" THEN Answer(req, 500, signed.err)
     ELSE [req EXCEPT !.status = 200, !.token = signed.token,
                      !.expires = expirationTime]

\* -------------------------------------------------------------- GetUser
GetUserFilter(username, doc) == doc.username = username

GetUserHandler(req, coll, storeUp) ==
  LET findResult == FindOne(coll, { i \in 1..Len(coll) : GetUserFilter(req.username, coll[i]) },
                            storeUp)
  IN IF findResult.err = "ErrNoDocuments"
     THEN Answer(req, 404, "User not found!")
     ELSE [req EXCEPT !.status = 200, !.user = findResult.doc]

\* the handler behind the gate; the recipe handlers answer from the recipes
\* collection, which this module does not hold
Downstream(req, coll, storeUp) ==
  IF req.route = "GET /user/:username"
  THEN GetUserHandler([req EXCEPT !.io = IoOf(storeUp)], coll, storeUp)
  ELSE [req EXCEPT !.status = 200]

\* ------------------------------------------------------- AuthMiddleware
\* the gate followed by the c.Next() it always reaches
AuthMiddleware(req, coll, storeUp, t) ==
  LET chain == Chain(req.route)
      c0 == [index |-> IndexOf(3), status |-> 0]
      p == ParseWithClaims(req.header, BytesKey(JWT_SECRET), t)
      c1 == IF p.err # "nil" THEN AbortWithStatus(c0, 401) ELSE c0
      c2 == IF p.tkn = "nil" \/ ~p.valid THEN AbortWithStatus(c1, 401) ELSE c1
      runs == NextRuns(c2, chain)
  IN IF 4 \in runs
     THEN [Downstream(req, coll, storeUp) EXCEPT !.ran = TRUE]
     ELSE Answer(req, c2.status, "")

\* ------------------------------------------------- what clients present
\* expiry seconds of the tokens presented at clock reading t: none (0), just
\* expired, expiring this second, either side of the refresh window, and the
\* expiry SignIn gives at t
ExpChoices(t) ==
  {0} \cup { Unix(t) + d : d \in {-1, 0, RefreshWindowSeconds, RefreshWindowSeconds + 1,
                                   SignInTTLMinutes * 60} }
\* one expiry in the past and one in the future, for the forged tokens
ForgedExp(t) == {Unix(t) - 1, Unix(t) + SignInTTLMinutes * 60}
Issued(u, e, k) == SignedString(MkClaims(u, e), BytesKey(k)).token
OtherUser(u) == CHOOSE v \in Usernames : v # u
\* tokens signed with the process secret, with another key, and tokens of
\* the process whose payload (username, expiry) was changed after signing
GoodTokens(t) == { Issued(u, e, JWT_SECRET) : u \in Usernames, e \in ExpChoices(t) }
ForeignTokens(t) == { Issued(u, e, OtherKey) : u \in Usernames, e \in ForgedExp(t) }
TamperedTokens(t) ==
  { [Issued(u, e, JWT_SECRET) EXCEPT !.username = OtherUser(u)] :
      u \in Usernames, e \in ForgedExp(t) }
    \cup { [Issued(u, Unix(t) - 1, JWT_SECRET) EXCEPT
              !.exp = Unix(t) + SignInTTLMinutes * 60] : u \in Usernames }
Headers(t) ==
  {EmptyHeader, Garbage} \cup GoodTokens(t) \cup ForeignTokens(t) \cup TamperedTokens(t)

\* ------------------------------------------------- recipes and their cache
\* the recipes requests that can be in flight together
Workers == {"w1", "w2"}
RecipeNames == {"a", "b"}
\* c.Param("id") after primitive.ObjectIDFromHex: an id, or the zero id (0)
\* when the text is no hex id
RecipeIds == 0..MaxRecipes
\* request bodies that bind to models.Recipe, and one that does not
RecipeBodies == [ok : {TRUE}, name : RecipeNames] \cup {[ok |-> FALSE, name |-> ""]}

\* json.Marshal / json.Unmarshal of a []models.Recipe
Marshal(list) == [json |-> list]
Unmarshal(data) == data.json

\* redisClient.Get / Set / Del on the key "recipes"; cacheUp = FALSE is a
\* Redis I/O error, which Set and Del callers do not look at
RedisGet(c, cacheUp) ==
  IF ~cacheUp THEN [err |-> "io", val |-> Marshal(<<>>)]
  ELSE IF c = <<>> THEN [err |-> "redis.Nil", val |-> Marshal(<<>>)]
  ELSE [err |-> "nil", val |-> c[1]]
RedisSet(c, val, cacheUp) == IF cacheUp THEN <<val>> ELSE c
RedisDelMutant(c, cacheUp) == c
RedisDel(c, cacheUp) == IF cacheUp THEN <<>> ELSE c

\* collection.UpdateOne({_id: id}, $set ...) and collection.DeleteOne({_id: id})
\* on the first document with that id
WithId(coll, id) == { i \in 1..Len(coll) : coll[i].id = id }
UpdateOne(coll, id, name) ==
  IF WithId(coll, id) = {} THEN coll
  ELSE [coll EXCEPT ![MinOf(WithId(coll, id))].name = name]
DeleteOne(coll, id) ==
  IF WithId(coll, id) = {} THEN [coll |-> coll, deletedCount |-> 0]
  ELSE LET i == MinOf(WithId(coll, id))
       IN [coll |-> SubSeq(coll, 1, i - 1) \o SubSeq(coll, i + 1, Len(coll)),
           deletedCount |-> 1]

NoRLoc == [op |-> "none", list |-> <<>>, changed |-> FALSE]
RNoResp ==
  [op |-> "none", status |-> 0, list |-> <<>>, hit |-> FALSE, changed |-> FALSE]
RAnswer(op, status) == [RNoResp EXCEPT !.op = op, !.status = status]

\* ------------------------------------------------------------- the state
VARIABLES
  now,      \* the clock, in ticks
  users,    \* the "users" collection, in insertion order
  pc,       \* per client: "idle", or "insert" between SignUp's FindOne and InsertOne
  pending,  \* per client: the user a SignUp in flight is about to insert
  last,     \* the request answered at this clock reading, and its answer
  recipes,  \* the "recipes" collection, in insertion order
  cache,    \* the Redis key "recipes": <<>> when absent, else <<value>>
  rpc,      \* per worker: where its recipes handler stands
  rloc,     \* per worker: the locals of its recipes handler
  rlast,    \* the recipes request answered last, and its answer
  nextId,   \* the next primitive.NewObjectID()
  faults    \* whether a store or cache call has failed since start-up
rvars == <<recipes, cache, rpc, rloc, rlast, nextId, faults>>
vars == <<now, users, pc, pending, last, recipes, cache, rpc, rloc, rlast, nextId, faults>>

\* the collection lives in the database and outlasts the process: at
\* start-up it holds what earlier sign-ups left, here nothing or one user
InitialStores ==
  { <<>>, <<[username |-> "alice", password |-> SumOnFreshHash(<<"pw1">>)]>> }

Init ==
  /\ now = Epoch * Second
  /\ users \in InitialStores
  /\ pc = [c \in Clients |-> "idle"]
  /\ pending = [c \in Clients |-> NoUser]
  /\ last = NoResp
  /\ recipes = <<>>
  /\ cache = <<>>
  /\ rpc = [p \in Workers |-> "idle"]
  /\ rloc = [p \in Workers |-> NoRLoc]
  /\ rlast = RNoResp
  /\ nextId = 1
  /\ faults = FALSE

\* the clock moves on between requests
Tick ==
  /\ \E t \in Instants : t > now /\ now' = t
  /\ last' = NoResp
  /\ UNCHANGED <<users, pc, pending, rvars>>

SignIn ==
  \E body \in Bodies, storeUp \in BOOLEAN :
    /\ last' = SignInHandler(body, users, storeUp, now)
    /\ UNCHANGED <<now, users, pc, pending, rvars>>

Refresh ==
  \E header \in Headers(now) :
    /\ last' = RefreshHandler(header, now)
    /\ UNCHANGED <<now, users, pc, pending, rvars>>

\* c.Param("username") and the store's state of health matter on the
\* GetUser route only
GateInputs(route) ==
  IF route = "GET /user/:username" THEN Usernames \X BOOLEAN ELSE {<<"", TRUE>>}

Gate ==
  \E route \in ProtectedRoutes, header \in Headers(now) :
    \E in \in GateInputs(route) :
      /\ LET req == [NoResp EXCEPT !.op = "Gate", !.route = route,
                                   !.header = header, !.username = in[1]]
         IN last' = AuthMiddleware(req, users, in[2], now)
      /\ UNCHANGED <<now, users, pc, pending, rvars>>

\* SignUpHandler up to its FindOne: bind, look the username up, answer 400
\* unless the lookup said ErrNoDocuments
SignUpFilterMutant(user, doc) ==
  doc.username = user.username /\ doc.password = SumOnFreshHash(user.password)
SignUpFilter(user, doc) == doc.username = user.username

SignUpLookup(c) ==
  \E body \in Bodies, storeUp \in BOOLEAN :
    /\ pc[c] = "idle"
    /\ LET req == [NoResp EXCEPT !.op = "SignUp", !.username = body.username,
                                 !.password = body.password]
           cur == FindOne(users,
                          { i \in 1..Len(users) : SignUpFilter(body, users[i]) },
                          storeUp)
       IN IF ~body.ok
          THEN /\ last' = Answer(req, 400, "bind")
               /\ UNCHANGED <<pc, pending>>
          ELSE IF cur.err # "ErrNoDocuments"
          THEN /\ last' = Answer([req EXCEPT !.io = IoOf(storeUp)], 400,
                                 "Username already exists")
               /\ UNCHANGED <<pc, pending>>
          ELSE /\ pc' = [pc EXCEPT ![c] = "insert"]
               /\ pending' = [pending EXCEPT ![c] =
                                [username |-> body.username, password |-> body.password]]
               /\ UNCHANGED last
    /\ UNCHANGED <<now, users, rvars>>

\* collection.InsertOne(doc): the document is added after those present;
\* on a driver/store I/O error nothing is written
InsertOneMutant(coll, doc, storeUp) ==
  [err |-> IF storeUp THEN "nil" ELSE "io", coll |-> Append(coll, doc)]
InsertOne(coll, doc, storeUp) ==
  IF storeUp THEN [err |-> "nil", coll |-> Append(coll, doc)]
  ELSE [err |-> "io", coll |-> coll]

\* SignUpHandler from the hashing on: hash, InsertOne, answer
SignUpInsert(c) ==
  \E storeUp \in BOOLEAN :
    /\ pc[c] = "insert"
    /\ storeUp => Len(users) < MaxUsers
    /\ LET user == [pending[c] EXCEPT !.password = SumOnFreshHash(pending[c].password)]
           req == [NoResp EXCEPT !.op = "SignUp", !.username = pending[c].username,
                                 !.password = pending[c].password,
                                 !.io = IoOf(storeUp)]
           ins == InsertOne(users, user, storeUp)
       IN /\ users' = ins.coll
          /\ last' = IF ins.err # "nil" THEN Answer(req, 500, "io")
                     ELSE [req EXCEPT !.status = 200, !.user = user]
    /\ pc' = [pc EXCEPT ![c] = "idle"]
    /\ pending' = [pending EXCEPT ![c] = NoUser]
    /\ UNCHANGED <<now, rvars>>

\* ------------------------------------------------ the recipes handlers
\* a handler that has answered: the worker is free again
Done(p, resp) ==
  /\ rlast' = resp
  /\ rpc' = [rpc EXCEPT ![p] = "idle"]
  /\ rloc' = [rloc EXCEPT ![p] = NoRLoc]
\* a handler that goes on to its next store or cache call
Goto(p, label, loc) ==
  /\ rpc' = [rpc EXCEPT ![p] = label]
  /\ rloc' = [rloc EXCEPT ![p] = loc]
  /\ UNCHANGED rlast
avars == <<now, users, pc, pending, last>>

\* ListRecipesHandler, the Get: a hit is answered from the cache, a miss
\* goes on to the collection, another error is answered 500
ListGet(p) ==
  \E cacheUp \in BOOLEAN :
    /\ rpc[p] = "idle"
    /\ LET got == RedisGet(cache, cacheUp)
       IN IF got.err = "redis.Nil"
          THEN Goto(p, "find", [NoRLoc EXCEPT !.op = "List"])
          ELSE IF got.err # "nil"
          THEN Done(p, RAnswer("List", 500))
          ELSE Done(p, [RAnswer("List", 200) EXCEPT !.list = Unmarshal(got.val),
                                                    !.hit = TRUE])
    /\ faults' = (faults \/ ~cacheUp)
    /\ UNCHANGED <<recipes, cache, nextId, avars>>

\* ListRecipesHandler, the Find and the cursor loop: a failing Find is
\* answered 500; a cursor that fails part-way ends the loop unseen, with
\* the documents read so far
ListFind(p) ==
  \E storeUp \in BOOLEAN, read \in 0..Len(recipes) :
    /\ rpc[p] = "find"
    /\ IF ~storeUp
       THEN Done(p, RAnswer("List", 500))
       ELSE Goto(p, "set", [rloc[p] EXCEPT !.list = SubSeq(recipes, 1, read)])
    /\ faults' = (faults \/ ~storeUp \/ read < Len(recipes))
    /\ UNCHANGED <<recipes, cache, nextId, avars>>

\* ListRecipesHandler, the Set (no expiry) and the answer
ListSet(p) ==
  \E cacheUp \in BOOLEAN :
    /\ rpc[p] = "set"
    /\ cache' = RedisSet(cache, Marshal(rloc[p].list), cacheUp)
    /\ Done(p, [RAnswer("List", 200) EXCEPT !.list = rloc[p].list])
    /\ faults' = (faults \/ ~cacheUp)
    /\ UNCHANGED <<recipes, nextId, avars>>

\* NewRecipeHandler up to its InsertOne
NewInsert(p) ==
  \E body \in RecipeBodies, storeUp \in BOOLEAN :
    /\ rpc[p] = "idle"
    /\ body.ok => nextId <= MaxRecipes
    /\ IF ~body.ok
       THEN /\ Done(p, RAnswer("New", 400))
            /\ UNCHANGED <<recipes, nextId, faults>>
       ELSE LET recipe == [id |-> nextId, name |-> body.name, publishedAt |-> now]
                inserted == InsertOne(recipes, recipe, storeUp)
            IN /\ nextId' = nextId + 1
               /\ faults' = (faults \/ ~storeUp)
               /\ recipes' = inserted.coll
               /\ IF inserted.err # "nil"
                  THEN Done(p, RAnswer("New", 500))
                  ELSE Goto(p, "clear", [NoRLoc EXCEPT !.op = "New", !.changed = TRUE])
    /\ UNCHANGED <<cache, avars>>

\* UpdateRecipeHandler up to its UpdateOne
UpdateStore(p) ==
  \E id \in RecipeIds, body \in RecipeBodies, storeUp \in BOOLEAN :
    /\ rpc[p] = "idle"
    /\ IF ~body.ok
       THEN /\ Done(p, RAnswer("Update", 400))
            /\ UNCHANGED <<recipes, faults>>
       ELSE /\ faults' = (faults \/ ~storeUp)
            /\ IF ~storeUp
               THEN /\ Done(p, RAnswer("Update", 500))
                    /\ UNCHANGED recipes
               ELSE /\ recipes' = UpdateOne(recipes, id, body.name)
                    /\ Goto(p, "clear",
                            [NoRLoc EXCEPT !.op = "Update",
                                           !.changed = (UpdateOne(recipes, id, body.name)
                                                          # recipes)])
    /\ UNCHANGED <<cache, nextId, avars>>

\* DeleteRecipeHandler up to its DeleteOne; it answers at once when
\* nothing was deleted
DeleteStore(p) ==
  \E id \in RecipeIds, storeUp \in BOOLEAN :
    /\ rpc[p] = "idle"
    /\ faults' = (faults \/ ~storeUp)
    /\ LET deleteResult == DeleteOne(recipes, id)
       IN IF ~storeUp
          THEN /\ Done(p, RAnswer("Delete", 500))
               /\ UNCHANGED recipes
          ELSE /\ recipes' = deleteResult.coll
               /\ IF deleteResult.deletedCount > 0
                  THEN Goto(p, "clear", [NoRLoc EXCEPT !.op = "Delete", !.changed = TRUE])
                  ELSE Done(p, RAnswer("Delete", 200))
    /\ UNCHANGED <<cache, nextId, avars>>

\* clearRecipesFromRedis and the answer of the writing handler
ClearCache(p) ==
  \E cacheUp \in BOOLEAN :
    /\ rpc[p] = "clear"
    /\ cache' = RedisDel(cache, cacheUp)
    /\ Done(p, [RAnswer(rloc[p].op, 200) EXCEPT !.changed = rloc[p].changed])
    /\ faults' = (faults \/ ~cacheUp)
    /\ UNCHANGED <<recipes, nextId, avars>>

RecipesStep(p) ==
  \/ ListGet(p)
  \/ ListFind(p)
  \/ ListSet(p)
  \/ NewInsert(p)
  \/ UpdateStore(p)
  \/ DeleteStore(p)
  \/ ClearCache(p)

Next ==
  \/ Tick
  \/ SignIn
  \/ Refresh
  \/ Gate
  \/ \E c \in Clients : SignUpLookup(c)
  \/ \E c \in Clients : SignUpInsert(c)
  \/ \E p \in Workers : RecipesStep(p)

\* every handler together; the properties below are checked under the two
\* parts SpecAuth and SpecGate, whose behaviours are behaviours of Spec
Spec == Init /\ [][Next]_vars

\* the handlers that read or write the user store, with sign-ups in flight
\* together, at one clock reading
NextAuth ==
  \/ SignIn
  \/ Refresh
  \/ \E c \in Clients : SignUpLookup(c)
  \/ \E c \in Clients : SignUpInsert(c)

SpecAuth == Init /\ [][NextAuth]_vars

\* the handlers that issue, parse or demand a token, as the clock moves
NextGate ==
  \/ Tick
  \/ SignIn
  \/ Refresh
  \/ Gate

SpecGate == Init /\ [][NextGate]_vars

\* every handler that holds the users collection, at one clock reading, one
\* sign-up at a time
NextStore ==
  \/ SignIn
  \/ Refresh
  \/ Gate
  \/ SignUpLookup("c1")
  \/ SignUpInsert("c1")

SpecStore == Init /\ [][NextStore]_vars

\* the recipes handlers, their store and cache calls interleaved
NextRecipes == \E p \in Workers : RecipesStep(p)

SpecRecipes == Init /\ [][NextRecipes]_vars

\* the recipes handlers, each request completing before the next starts
NextRecipesSeq ==
  \E p \in Workers :
    /\ \A q \in Workers \ {p} : rpc[q] = "idle"
    /\ RecipesStep(p)

SpecRecipesSeq == Init /\ [][NextRecipesSeq]_vars

\* ====================================================== the properties
\* the vocabulary of the claims, stated on what the client sends and gets
CorrectlySigned(h) == h.kind = "jwt" /\ h = Issued(h.username, h.exp, JWT_SECRET)
Expired(h, t) == h.exp # 0 /\ Unix(t) > h.exp
ParseSucceeds(h, t) == CorrectlySigned(h) /\ ~Expired(h, t)
Present(coll, u) == \E i \in 1..Len(coll) : coll[i].username = u
Registered(coll, u, p) ==
  \E i \in 1..Len(coll) : coll[i] = [username |-> u, password |-> SumOnFreshHash(p)]
Outcome(r) ==
  [status |-> r.status, error |-> r.error, token |-> r.token,
   expires |-> r.expires, user |-> r.user]

\* C1: on a route of the protected group, a request whose token does not
\* parse (empty, malformed, badly signed) is answered 401 and the handler
\* behind the gate is not executed; the handler runs only when the parse
\* succeeded.
C1_GateStopsOnParseFailure ==
  last.op = "Gate" =>
    /\ last.route \in ProtectedRoutes
    /\ ~ParseSucceeds(last.header, now) =>
         (last.status = 401 /\ last.error = "" /\ ~last.ran)
    /\ last.ran => ParseSucceeds(last.header, now)

\* C1 witness: an empty or malformed Authorization header (both aborts of
\* the gate are taken) was answered 401 without running the handler
C1_Witness ==
  /\ last.op = "Gate"
  /\ last.header.kind \in {"empty", "garbage"}
  /\ last.status = 401
  /\ ~last.ran

\* C2: there is at most one UserRecord per username in the user store, also
\* when SignUp requests for the same username interleave.
C2_UniqueUsernames ==
  \A i, j \in 1..Len(users) : users[i].username = users[j].username => i = j

\* C3: a SignUp whose username is present in the store when it is looked up
\* is answered 400 "Username already exists" and leaves the store as it was;
\* it never goes on to insert.
C3_TakenLeavesStore ==
  [][ /\ \A c \in Clients :
           (pc[c] = "idle" /\ pc'[c] = "insert")
             => ~Present(users, pending'[c].username)
      /\ (pc' = pc /\ last'.op = "SignUp" /\ last'.error # "bind"
            /\ Present(users, last'.username))
           => /\ last'.status = 400
              /\ last'.error = "Username already exists"
              /\ last'.user = NoUser
              /\ users' = users ]_vars

\* C3 witness: a SignUp for a stored username, carrying another password
\* than the stored one, was answered 400
C3_Witness ==
  /\ last.op = "SignUp"
  /\ last.status = 400
  /\ last.error = "Username already exists"
  /\ \E i \in 1..Len(users) :
       /\ users[i].username = last.username
       /\ users[i].password # SumOnFreshHash(last.password)

\* C4: SignIn with a registered (username, password) pair, the store
\* answering, is answered 200 with a token of the process carrying that
\* username, whatever SignUp, SignIn and Refresh requests came before.
C4_RegisteredSignsIn ==
  (last.op = "SignIn" /\ last.io = "up"
     /\ Registered(users, last.username, last.password))
    => /\ last.status = 200
       /\ last.token.username = last.username
       /\ CorrectlySigned(last.token)

\* C4 witness: a pair registered by a SignUp of this run (not the initial
\* record) signed in
C4_Witness ==
  /\ last.op = "SignIn"
  /\ last.status = 200
  /\ \E i \in 2..Len(users) :
       users[i] = [username |-> last.username,
                   password |-> SumOnFreshHash(last.password)]

\* C5: SignIn with an unknown username and SignIn with a known username and
\* a wrong password get the same answer: 401, the same error body, no token.
C5_SameUnauthorized ==
  (last.op = "SignIn" /\ last.error # "bind"
     /\ ~Registered(users, last.username, last.password))
    => Outcome(last) =
         [status |-> 401, error |-> "Invalid username or password",
          token |-> NoToken, expires |-> 0, user |-> NoUser]

\* C5 witness: the wrong-password case, the store answering
C5_Witness ==
  /\ last.op = "SignIn"
  /\ last.io = "up"
  /\ Present(users, last.username)
  /\ ~Registered(users, last.username, last.password)
  /\ last.status = 401

\* C6: Refresh with a token of the process that has not expired and has at
\* most 30 seconds left is answered 200 with a new token for the same
\* username that expires 5 minutes after the call.
C6_RefreshInWindowSucceeds ==
  (last.op = "Refresh" /\ ParseSucceeds(last.header, now) /\ last.header.exp # 0
     /\ TimeUnix(last.header.exp) - now <= RefreshWindowSeconds * Second)
    => /\ last.status = 200
       /\ CorrectlySigned(last.token)
       /\ last.token.username = last.header.username
       /\ last.expires = now + RefreshTTLMinutes * Minute
       /\ last.token.exp = Unix(last.expires)

\* C7: Refresh with a token of the process that has more than 30 seconds
\* left is answered 400 "Token is not expired yet" and no token is issued.
C7_RefreshTooEarly ==
  (last.op = "Refresh" /\ CorrectlySigned(last.header)
     /\ TimeUnix(last.header.exp) - now > RefreshWindowSeconds * Second)
    => /\ last.status = 400
       /\ last.error = "Token is not expired yet"
       /\ last.token = NoToken
       /\ last.expires = 0

\* C7 witness: the token SignIn issues at this clock reading (10 minutes
\* left) was presented to Refresh at once and refused
C7_Witness ==
  /\ last.op = "Refresh"
  /\ CorrectlySigned(last.header)
  /\ last.header.exp = Unix(now + SignInTTLMinutes * Minute)
  /\ last.status = 400

\* C8: a token whose payload was changed after signing, or that was signed
\* with another key, is answered 401 by Refresh and by the gate (which does
\* not run the handler), whether its expiry is past or future.
C8_BadSignatureRejected ==
  (last.op \in {"Refresh", "Gate"} /\ last.header.kind = "jwt"
     /\ ~CorrectlySigned(last.header))
    => /\ last.status = 401
       /\ last.token = NoToken
       /\ ~last.ran

\* C8 witness: a token signed by the process whose expiry was then moved
\* into the future was refused by Refresh
C8_Witness ==
  /\ last.op = "Refresh"
  /\ last.header.kind = "jwt"
  /\ last.header.sig.key = JWT_SECRET
  /\ last.header.sig.exp # last.header.exp
  /\ Unix(now) < last.header.exp
  /\ last.status = 401

\* C9 as claimed: the parse does not look at the expiry, so Refresh of a
\* token of the process whose expiresAt is in the past is not answered 401.
C9_ParseIgnoresExpiry ==
  (last.op = "Refresh" /\ CorrectlySigned(last.header)
     /\ TimeUnix(last.header.exp) < now)
    => last.status # 401

\* C9 amended: the parse checks structure, signature and expiry; Refresh of a
\* token of the process is answered 401 "token is expired" exactly when the
\* token carries an expiry (not 0) and the current Unix second is later.
C9_ParseChecksExpiry ==
  (last.op = "Refresh" /\ CorrectlySigned(last.header))
    => ((last.status = 401 /\ last.error = "token is expired")
          <=> (last.header.exp # 0 /\ Unix(now) > last.header.exp))

\* C9 witness: a token of the process, expired a second ago, was refused
C9_Witness ==
  /\ last.op = "Refresh"
  /\ CorrectlySigned(last.header)
  /\ last.header.exp = Unix(now) - 1
  /\ last.status = 401
  /\ last.error = "token is expired"

\* C10 as claimed: the expiry in a token issued by SignIn is the issuance
\* time plus 10 minutes, and "expires" in the answer is that same instant.
C10_ExpiresSameInstant ==
  (last.op = "SignIn" /\ last.status = 200)
    => /\ TimeUnix(last.token.exp) = now + SignInTTLMinutes * Minute
       /\ last.expires = TimeUnix(last.token.exp)

\* C10 amended: "expires" in the answer is the issuance time plus 10
\* minutes; the expiry in the token is that instant cut to whole seconds
\* (less than a second earlier), and is later than the issuance time.
C10_ExpiresTruncated ==
  (last.op = "SignIn" /\ last.status = 200)
    => /\ last.expires = now + SignInTTLMinutes * Minute
       /\ last.token.exp = Unix(last.expires)
       /\ TimeUnix(last.token.exp) <= last.expires
       /\ last.expires < TimeUnix(last.token.exp + 1)
       /\ TimeUnix(last.token.exp) > now

\* C10 witness: a SignIn between two whole seconds: the answer's "expires"
\* is later than the token's expiry
C10_Witness ==
  /\ last.op = "SignIn"
  /\ last.status = 200
  /\ now % TicksPerSec # 0
  /\ last.expires > TimeUnix(last.token.exp)

\* C11: when the store call of SignIn (lookup) or SignUp (lookup, insert)
\* fails with an I/O error, the request is answered 500, not 401 or 400.
C11_StoreErrorIs500 ==
  (last.op \in {"SignIn", "SignUp"} /\ last.io = "down") => last.status = 500

\* C12: the user store changes only by a successful SignUp adding one
\* record after those present; SignIn, Refresh, the gate, GetUser and a
\* failed SignUp leave it as it was, and no record is ever changed or removed.
C12_StoreOnlyGrowsBySignUp ==
  [][ /\ Len(users') >= Len(users)
      /\ SubSeq(users', 1, Len(users)) = users
      /\ users' # users =>
           /\ \E c \in Clients : pc[c] = "insert" /\ pc'[c] = "idle"
           /\ last'.op = "SignUp"
           /\ last'.status = 200
           /\ users' = Append(users, last'.user) ]_vars

\* C12 witness: GetUser ran behind the gate on a store a SignUp had grown,
\* and the store still holds its two records
C12_Witness ==
  /\ last.op = "Gate"
  /\ last.route = "GET /user/:username"
  /\ last.ran
  /\ last.status = 200
  /\ last.user \in { users[i] : i \in 1..Len(users) }
  /\ Len(users) = 2

\* C13 as claimed: at any time t the handler behind the gate runs only if
\* the token is correctly signed and its expiresAt is later than t (stated
\* for the tokens that carry an expiry, as those SignIn issues do).
C13_NeverAdmitsExpired ==
  (last.op = "Gate" /\ last.ran /\ last.header.exp # 0)
    => /\ CorrectlySigned(last.header)
       /\ TimeUnix(last.header.exp) > now

\* C13 amended: the handler behind the gate runs exactly when the token is
\* correctly signed and either carries no expiry (0) or its expiresAt second
\* is not earlier than the current Unix second: a token is still admitted
\* during the whole second of its expiry and refused from the next second on.
C13_AdmitsToTheSecond ==
  last.op = "Gate" =>
    /\ last.ran <=>
         /\ CorrectlySigned(last.header)
         /\ last.header.exp = 0 \/ now < TimeUnix(last.header.exp + 1)
    /\ ~last.ran => last.status = 401

\* C13 witness: a token of the process was admitted after the instant of
\* its expiry, within the same second
C13_Witness ==
  /\ last.op = "Gate"
  /\ last.ran
  /\ CorrectlySigned(last.header)
  /\ last.header.exp # 0
  /\ now > TimeUnix(last.header.exp)

\* the single-pass digest of the raw password bytes
Digest(password) == <<SHA256(password)>>
RawBytesIn(stored, password) ==
  \E i \in 1..Len(stored) : i + Len(password) - 1 <= Len(stored)
     /\ SubSeq(stored, i, i + Len(password) - 1) = password

\* C16: the password field SignUp stores and returns is the digest of the
\* raw password bytes and does not contain the raw password.
C16_StoredPasswordIsDigest ==
  (last.op = "SignUp" /\ last.status = 200)
    => /\ last.user.password = Digest(last.password)
       /\ ~RawBytesIn(last.user.password, last.password)
       /\ users[Len(users)].password = Digest(last.password)

\* ---- C14: whatever the interleaving of a ListRecipes that misses the cache
\* with recipe writes, once every request has completed (and no store or
\* cache call failed) the "recipes" cache entry is absent or equals the
\* recipes collection.
Quiescent == \A p \in Workers : rpc[p] = "idle"
C14_CacheAbsentOrCurrent ==
  (Quiescent /\ ~faults) =>
    (cache = <<>> \/ Unmarshal(cache[1]) = recipes)

\* ---- C15: when recipe requests do not overlap and no store or cache call
\* fails, a successful create, update or delete that changed the collection
\* leaves the cache entry absent, the entry is never out of date, and a
\* ListRecipes answer equals the collection, from the cache or not.
C15_SequentialListIsCurrent ==
  (Quiescent /\ ~faults) =>
    /\ (rlast.op \in {"New", "Update", "Delete"} /\ rlast.status = 200 /\ rlast.changed)
         => cache = <<>>
    /\ cache # <<>> => Unmarshal(cache[1]) = recipes
    /\ (rlast.op = "List" /\ rlast.status = 200) => rlast.list = recipes
\* a ListRecipes answered from the cache after writes, with recipes to list
C15_Witness ==
  /\ Quiescent /\ ~faults
  /\ rlast.op = "List" /\ rlast.status = 200 /\ rlast.hit
  /\ Len(rlast.list) = 2
  /\ rlast.list[1].name # rlast.list[2].name

====
